---- MODULE Spec2Model ----
(***************************************************************************)
(* Crawl driver of WebHtmlDownload.py: the sitemap load, the retry ledger  *)
(* (retry_urls and its file), download_html, the worklist drain loop with  *)
(* its asset branch, the sitemap pass and the final persistence; and the   *)
(* upload pass of AwsS3Upload.py over the mirror tree.                     *)
(*                                                                         *)
(* A URL is a sequence of tokens, origin first, so that the string tests   *)
(* of the source (startswith, split('?'), os.path.splitext) are computed   *)
(* on it:  <<"ex", "/p", "?", "x=1">>  is  https://ex/p?x=1.               *)
(***************************************************************************)
EXTENDS Naturals, Sequences, FiniteSets, TLC

\* ------------------------------------------------------------------ bounds
\* Largest number of <a href>/<img src> candidates one fetched page carries.
MaxLinks == 2

\* Number of objects in the mirror tree the upload pass walks.
MaxFiles == 2

\* --------------------------------------------------------- program constants
WEB_RETRY_COUNT == 3

top_page_url == <<"ex">>
sitemap_url == <<"ex", "/sitemap", ".xml">>

\* top_local_dir and index_file_name; a path is a token sequence like a URL.
top_local_dir == <<"root">>
index_file_name == "index"
top_local_file == top_local_dir \o <<"\\", index_file_name>>

PageP == <<"ex", "/p">>
PageS == <<"ex", "/s">>
PageQ == <<"ex", "/p", "?", "x=1">>
Asset == <<"ex", "/a", ".png">>
Tag == <<"ex", "/tagcloud", "?", "tag=", "news">>
OffDomain == <<"other", "/x">>
\* https://ex.evil/x: another host, whose name begins with the name of ours.
Sibling == <<"ex", ".evil", "/x">>

\* What GET sitemap_url can answer: no response, a non-2xx status, a body
\* that is not XML, or a urlset; a url element has a loc and may have a
\* lastmod ("missing": the element is not there).
NoFeed == [kind |-> "none", urls |-> <<>>]
FeedDown == [kind |-> "unreachable", urls |-> <<>>]
FeedStatus == [kind |-> "status", urls |-> <<>>]
FeedBroken == [kind |-> "unparseable", urls |-> <<>>]
FeedFull == [kind |-> "urlset",
             urls |-> <<[loc |-> PageS, lastmod |-> "2020-01-01T00:00:00+0900"],
                        [loc |-> PageP, lastmod |-> "2019-01-01T00:00:00+0900"]>>]
FeedNoLastmod == [kind |-> "urlset",
                  urls |-> <<[loc |-> PageS, lastmod |-> "missing"],
                             [loc |-> PageP, lastmod |-> "2019-01-01T00:00:00+0900"]>>]

Feeds == {FeedDown, FeedStatus, FeedBroken, FeedFull, FeedNoLastmod}

\* What a fetched page may carry in href/src, already resolved by urljoin.
Hrefs == {top_page_url, PageP, PageQ, Asset, Tag, OffDomain}

\* The candidates of a site that links to hosts other than its own.
OriginHrefs == {top_page_url, Asset, OffDomain, Sibling}

\* URLs that can have a destination file under the mirror root.
Dest == {top_page_url, PageP, PageS, Asset, Tag, Sibling, sitemap_url}

\* URLs a ledger file can list.
LedgerUrls == {top_page_url, PageP, PageS, Asset, Tag, Sibling}

ExtTokens == {".png", ".xml"}

\* requests.get + raise_for_status: a clean response, a response with a
\* non-empty history, or a RequestException/IOError.
Outcomes == {"ok", "redirect", "error"}

NoUrl == <<>>

\* ------------------------------------------------------------ pure functions
IsPrefix(p, s) == Len(p) <= Len(s) /\ SubSeq(s, 1, Len(p)) = p

\* url.startswith(top_page_url)
StartsWithTop(u) == IsPrefix(top_page_url, u)

\* url.startswith(f'{top_page_url}/tagcloud?tag=')
is_tagcloud_param(u) == IsPrefix(top_page_url \o <<"/tagcloud", "?", "tag=">>, u)

\* '?' in url
HasQuery(u) == \E i \in 1..Len(u) : u[i] = "?"

\* A drain loop that would fetch the URL with its query string.
KeepQuery(u) == u

\* url.split('?')[0]
SplitQuery(u) ==
    LET first == CHOOSE i \in 1..Len(u) : u[i] = "?" /\ \A j \in 1..(i - 1) : u[j] # "?"
    IN  SubSeq(u, 1, first - 1)

\* url.replace(top_page_url, top_local_dir).replace('/', '\\'): the origin
\* token becomes the mirror root, a token "/x" now stands for \x.
MirrorPath(u) ==
    IF StartsWithTop(u)
    THEN top_local_dir \o SubSeq(u, Len(top_page_url) + 1, Len(u))
    ELSE u

\* local_path.replace('\\tagcloud?tag=', '\\tagcloud\\'), every occurrence.
RECURSIVE TagcloudPath(_)
TagcloudPath(p) ==
    IF p = <<>> THEN <<>>
    ELSE IF IsPrefix(<<"/tagcloud", "?", "tag=">>, p)
         THEN <<"/tagcloud", "\\">> \o TagcloudPath(SubSeq(p, 4, Len(p)))
         ELSE <<Head(p)>> \o TagcloudPath(Tail(p))

\* os.path.join(local_path, index_file_name)
JoinIndex(p) == p \o <<"\\", index_file_name>>

\* os.path.splitext(local_path)[1] is non-empty
HasExt(u) == Len(u) > 1 /\ u[Len(u)] \in ExtTokens

\* The loc values of the feeds in alphabetical order, for sort(key=loc).
LocOrder == <<PageP, PageS>>

LocRank(u) == CHOOSE i \in 1..Len(LocOrder) : LocOrder[i] = u

\* sitemap.sort(key=lambda x: x['loc'])
RECURSIVE SortByLoc(_)
SortByLoc(q) ==
    IF q = <<>> THEN <<>>
    ELSE LET m == CHOOSE i \in 1..Len(q) :
                      \A j \in 1..Len(q) : LocRank(q[i].loc) <= LocRank(q[j].loc)
         IN  <<q[m]>> \o SortByLoc(SubSeq(q, 1, m - 1) \o SubSeq(q, m + 1, Len(q)))

\* A loader that would fall back to the full urlset whatever the feed answers.
LoadOrDefault(f) == SortByLoc(FeedFull.urls)

\* load_sitemap, lines 53-95. raise_for_status turns a non-2xx status into a
\* RequestException; on a url element without lastmod, find() returns None
\* and .text raises AttributeError, which line 93 turns into [].
load_sitemap(f) ==
    IF f.kind \in {"unreachable", "status"} THEN <<>>
    ELSE IF f.kind = "unparseable" THEN <<>>
    ELSE IF \E i \in 1..Len(f.urls) : f.urls[i].lastmod = "missing" THEN <<>>
    ELSE SortByLoc(f.urls)

\* The links download_html collects from the candidates of a page.
CollectLinks(hrefs, recursive) ==
    IF recursive THEN {h \in hrefs : StartsWithTop(h)} ELSE {}

\* A sitemap pass that would extract links like the other call sites.
RecursiveEverywhere(c) == TRUE

\* The recursive argument each call site passes to download_html.
Recursive(c) == c # "sitemap"

\* The value download_html returns.
None(c) == [none |-> TRUE, links |-> {}, site |-> c]
Links(c, s) == [none |-> FALSE, links |-> s, site |-> c]

\* What the requests issued for one URL have answered so far in this run:
\* nothing yet, one error, one error then only clean responses, only
\* errors (two or more), only redirects, or anything else.
Observe(h, o) ==
    IF h = "none" THEN (IF o = "error" THEN "F" ELSE IF o = "redirect" THEN "R" ELSE "X")
    ELSE IF h = "R" THEN (IF o = "redirect" THEN "R" ELSE "X")
    ELSE IF h = "F" THEN (IF o = "ok" THEN "FS" ELSE IF o = "error" THEN "FF" ELSE "X")
    ELSE IF h = "FS" THEN (IF o = "ok" THEN "FS" ELSE "X")
    ELSE IF h = "FF" THEN (IF o = "error" THEN "FF" ELSE "X")
    ELSE "X"

\* ------------------------------------------- pure functions of the upload
\* The file names the mirror tree can hold, in the order os.walk lists them.
FileNames == <<"index", "a.png", "p", "q">>

\* os.path.join(root, file)
ObjPath(i) == <<"root", "\\", FileNames[i]>>

\* file_path + '.metadata'
MetaPath(p) == Append(p, ".metadata")

\* file.endswith('.metadata')
EndsWithMetadata(p) == p # <<>> /\ p[Len(p)] = ".metadata"

\* A sidecar is absent, or a text file: a sequence of lines, each a sequence
\* of tokens.
NoSidecar == [exists |-> FALSE, lines |-> <<>>]
SidecarHtml == [exists |-> TRUE, lines |-> << <<"Content-Type", ":", " ", "text/html", "\n">> >>]
SidecarPng == [exists |-> TRUE,
               lines |-> << <<"Last-Modified", ":", " ", "Mon", "\n">>,
                            <<"Content-Type", ":", " ", "image/png", "\n">> >>]
SidecarBlank == [exists |-> TRUE, lines |-> << <<"Content-Type", ":", " ", "\n">> >>]
SidecarOther == [exists |-> TRUE, lines |-> << <<"Last-Modified", ":", " ", "Mon", "\n">> >>]

Sidecars == {NoSidecar, SidecarHtml, SidecarPng, SidecarBlank, SidecarOther}

Whitespace == {" ", "\n"}

\* str.strip()
RECURSIVE LStrip(_)
LStrip(t) == IF t # <<>> /\ Head(t) \in Whitespace THEN LStrip(Tail(t)) ELSE t

RECURSIVE RStrip(_)
RStrip(t) ==
    IF t # <<>> /\ t[Len(t)] \in Whitespace THEN RStrip(SubSeq(t, 1, Len(t) - 1)) ELSE t

Strip(t) == RStrip(LStrip(t))

\* A reader that would take the value of the first line, whatever its name.
FirstLineValue(lines) ==
    IF lines = <<>> THEN <<>> ELSE Strip(SubSeq(lines[1], 3, Len(lines[1])))

\* Lines 77-81: the stripped value of the first line that starts with
\* 'Content-Type:'. None and '' are both falsy at line 83: both are <<>>.
content_type(lines) ==
    LET hits == {i \in 1..Len(lines) : IsPrefix(<<"Content-Type", ":">>, lines[i])}
    IN  IF hits = {} THEN <<>>
        ELSE LET i == CHOOSE h \in hits : \A g \in hits : h <= g
             IN  Strip(SubSeq(lines[i], 3, Len(lines[i])))

\* The files os.walk(local_path) yields: each object, then its sidecar.
RECURSIVE WalkFrom(_, _)
WalkFrom(tree, i) ==
    IF i > MaxFiles THEN <<>>
    ELSE <<ObjPath(i)>>
         \o (IF tree[i].exists THEN <<MetaPath(ObjPath(i))>> ELSE <<>>)
         \o WalkFrom(tree, i + 1)

Walk(tree) == WalkFrom(tree, 1)

\* os.path.exists(path) under the mirror tree
Exists(tree, p) == \E k \in 1..Len(Walk(tree)) : Walk(tree)[k] = p

\* open(metadata_file_path, 'r')
ReadLines(tree, mp) ==
    LET i == CHOOSE j \in 1..MaxFiles : MetaPath(ObjPath(j)) = mp IN tree[i].lines

\* -------------------------------------------------------------------- state
VARIABLES
    pc,             \* position of the script
    retry_mode,     \* the ledger file existed at startup
    retry_urls,     \* in-memory retry ledger
    processed_urls,
    skipped_urls,
    page_links,     \* the worklist
    url,            \* the URL being handled
    caller,         \* call site of the running download_html
    attempt,        \* loop variable of the running attempt loop
    idx,            \* position in sitemap_data
    fileExists,     \* the ledger file is on disk
    fileLines,      \* the URLs listed in the ledger file
    written,        \* what this run wrote at each destination (file + sidecar)
    response,       \* outcome of the last request of the current handling
    nreq,           \* requests issued so far in the current handling
    result,         \* value returned by the last download_html call
    loaded,         \* the URLs read from the ledger file at startup
    hist,           \* per URL of loaded, what its requests answered in this run
    local_path,     \* destination of the handling in progress
    site,           \* the href/src candidates the pages of the site carry
    feed,           \* what GET sitemap_url answered at startup
    placed,         \* the URLs a full-crawl run has put on the worklist so far
    up_pc,          \* position of the upload script
    up_tree,        \* per object of the mirror tree, the text of its sidecar
    up_retry_mode,  \* retry_mode of the upload script
    retry_files,    \* in-memory upload ledger
    up_fileExists,  \* the upload ledger file is on disk
    up_fileLines,   \* the paths listed in the upload ledger file
    pos,            \* position of the walk
    uploaded,       \* per walked file, the ContentType it was uploaded with
    processed_files,
    failed          \* the files whose upload raised in this run

crawlVars == <<pc, retry_mode, retry_urls, processed_urls, skipped_urls, page_links,
               url, caller, attempt, idx, fileExists, fileLines, written, response,
               nreq, result, loaded, hist, local_path, site, feed, placed>>

\* Line 98: sitemap_data = load_sitemap(sitemap_url)
sitemap_data == load_sitemap(feed)

uploadVars == <<up_pc, up_tree, up_retry_mode, retry_files, up_fileExists,
                up_fileLines, pos, uploaded, processed_files, failed>>

vars == <<crawlVars, uploadVars>>

NoWrites == [d \in Dest |-> "none"]
NoHist == [d \in LedgerUrls |-> "none"]
NoResult == None("none")

Fresh ==
    /\ pc = "start"
    /\ retry_mode = FALSE
    /\ retry_urls = {}
    /\ processed_urls = {}
    /\ skipped_urls = {}
    /\ page_links = {}
    /\ url = NoUrl
    /\ caller = "none"
    /\ attempt = 0
    /\ idx = 1
    /\ fileExists = FALSE
    /\ fileLines = {}
    /\ written = NoWrites
    /\ response = "none"
    /\ nreq = 0
    /\ result = NoResult
    /\ loaded = {}
    /\ hist = NoHist
    /\ local_path = NoUrl
    /\ feed = NoFeed
    /\ placed = {}

\* The upload script before its first run.
UploadFresh ==
    /\ up_pc = "start"
    /\ up_retry_mode = FALSE
    /\ retry_files = {}
    /\ up_fileExists = FALSE
    /\ up_fileLines = {}
    /\ pos = 1
    /\ uploaded = {}
    /\ processed_files = 0
    /\ failed = {}

EmptyTree == [i \in 1..MaxFiles |-> NoSidecar]

Init == Fresh /\ site = Hrefs /\ UploadFresh /\ up_tree = EmptyTree

\* The same script pointed at a site whose pages link to other hosts.
InitOrigin == Fresh /\ site = OriginHrefs /\ UploadFresh /\ up_tree = EmptyTree

\* The upload script over a mirror tree whose objects have any sidecar.
InitUpload ==
    /\ Fresh /\ site = Hrefs
    /\ UploadFresh
    /\ up_tree \in [1..MaxFiles -> Sidecars]

\* ------------------------------------------------------------------ actions
\* Lines 98-117: load the sitemap, exit(1) if it is empty, else create the
\* sets and load (or create) the ledger file.
Startup ==
    /\ pc = "start"
    /\ \E f \in Feeds :
        /\ feed' = f
        /\ IF load_sitemap(f) = <<>>
           THEN /\ pc' = "aborted"
                /\ UNCHANGED <<retry_mode, retry_urls, fileExists, fileLines, loaded>>
           ELSE /\ pc' = "top"
                /\ loaded' = IF fileExists THEN fileLines ELSE {}
                /\ retry_mode' = fileExists
                /\ retry_urls' = IF fileExists THEN fileLines ELSE {}
                /\ fileExists' = TRUE
                /\ fileLines' = IF fileExists THEN fileLines ELSE {}
    /\ UNCHANGED <<uploadVars, site, processed_urls, skipped_urls, page_links, placed, url, caller,
                   attempt, idx, written, response, nreq, result, hist, local_path>>

\* The caller's code after download_html returned res for u (lines 213-216,
\* 274-278, 300-304), with proc and pend the caller's sets at the call.
Finish(c, u, res, proc, pend) ==
    /\ result' = res
    /\ processed_urls' = IF res.none THEN proc ELSE proc \cup {u}
    /\ page_links' = IF c = "top" THEN res.links
                     ELSE IF c = "drain" THEN pend \cup res.links
                     ELSE pend
    /\ placed' = IF retry_mode \/ c = "sitemap" THEN placed ELSE placed \cup res.links
    /\ idx' = IF c = "sitemap" THEN idx + 1 ELSE idx
    /\ pc' = IF c = "sitemap" THEN "sitemap" ELSE "drain"
    /\ url' = NoUrl
    /\ local_path' = NoUrl
    /\ caller' = "none"
    /\ attempt' = 0

\* download_html(u, ...) called from c while the ledger is ru: the gate of
\* lines 124-125 returns set() at once, otherwise the attempt loop starts.
Call(c, u, lp, ru, proc, pend) ==
    IF retry_mode /\ u \notin ru
    THEN Finish(c, u, Links(c, {}), proc, pend)
    ELSE /\ pc' = "html"
         /\ url' = u
         /\ local_path' = lp
         /\ caller' = c
         /\ attempt' = 0
         /\ processed_urls' = proc
         /\ page_links' = pend
         /\ placed' = placed
         /\ idx' = idx
         /\ result' = result

\* One more request of the current handling was answered with o.
Track(o) ==
    /\ nreq' = nreq + 1
    /\ response' = o
    /\ hist' = IF url \in loaded
               THEN [hist EXCEPT ![url] = Observe(hist[url], o)]
               ELSE hist

\* Line 212: the top page.
TopPage ==
    /\ pc = "top"
    /\ Call("top", top_page_url, top_local_file, retry_urls, processed_urls, page_links)
    /\ nreq' = 0
    /\ response' = "none"
    /\ UNCHANGED <<uploadVars, site, feed, retry_mode, retry_urls, skipped_urls, fileExists, fileLines,
                   written, loaded, hist>>

\* Lines 127-206: one pass of the attempt loop of download_html.
HtmlRequest ==
    /\ pc = "html"
    /\ \E o \in Outcomes :
        /\ \/ /\ o = "error"
              /\ IF attempt = WEB_RETRY_COUNT - 1
                 THEN /\ retry_urls' = retry_urls \cup {url}
                      /\ Finish(caller, url, None(caller), processed_urls, page_links)
                 ELSE /\ attempt' = attempt + 1
                      /\ UNCHANGED <<retry_urls, processed_urls, page_links, placed, idx,
                                     pc, url, caller, result, local_path>>
              /\ UNCHANGED <<skipped_urls, written>>
           \/ /\ o = "redirect"
              /\ skipped_urls' = skipped_urls \cup {url}
              /\ Finish(caller, url, None(caller), processed_urls, page_links)
              /\ UNCHANGED <<retry_urls, written>>
           \/ /\ o = "ok"
              /\ written' = [written EXCEPT ![url] = "html"]
              /\ retry_urls' = retry_urls \ {url}
              /\ \E hrefs \in SUBSET site :
                    /\ Cardinality(hrefs) <= MaxLinks
                    /\ Finish(caller, url, Links(caller, CollectLinks(hrefs, Recursive(caller))),
                              processed_urls, page_links)
              /\ UNCHANGED skipped_urls
        /\ Track(o)
    /\ UNCHANGED <<uploadVars, site, feed, retry_mode, fileExists, fileLines, loaded>>

\* A drain loop that would not consult processed_urls.
NeverProcessed(u, proc) == FALSE

\* Lines 231-232: the processed-set check of the drain loop.
AlreadyProcessed(u, proc) == u \in proc

\* Lines 220-237 and 269-273: take one URL off the worklist, or leave the
\* loop when it is empty.
Drain ==
    /\ pc = "drain"
    /\ nreq' = 0
    /\ response' = "none"
    /\ IF page_links = {}
       THEN /\ pc' = "sitemap"
            /\ idx' = 1
            /\ UNCHANGED <<retry_urls, processed_urls, skipped_urls, page_links, placed,
                           url, caller, attempt, result, local_path>>
       ELSE \E popped \in page_links :
            LET rest == page_links \ {popped}
                tagc == is_tagcloud_param(popped)
                cut  == HasQuery(popped) /\ ~tagc
                u    == IF cut THEN SplitQuery(popped) ELSE popped
                lp   == IF tagc THEN TagcloudPath(MirrorPath(u)) ELSE MirrorPath(u)
            IN  /\ skipped_urls' = IF cut THEN skipped_urls \cup {popped} ELSE skipped_urls
                /\ UNCHANGED retry_urls
                /\ IF AlreadyProcessed(u, processed_urls)
                   THEN /\ page_links' = rest
                        /\ UNCHANGED <<placed, pc, processed_urls, url, caller, attempt, idx,
                                       result, local_path>>
                   ELSE IF HasExt(lp) /\ ~tagc
                   THEN /\ pc' = "asset"
                        /\ url' = u
                        /\ local_path' = lp
                        /\ attempt' = 0
                        /\ page_links' = rest
                        /\ UNCHANGED <<placed, processed_urls, caller, idx, result>>
                   ELSE Call("drain", u, JoinIndex(lp), retry_urls, processed_urls, rest)
    /\ UNCHANGED <<uploadVars, site, feed, retry_mode, fileExists, fileLines, written, loaded, hist>>

\* Lines 240-273: one pass of the attempt loop of the asset branch; when the
\* loop ends the script goes on to the download_html call of line 273.
AssetRequest ==
    /\ pc = "asset"
    /\ \E o \in Outcomes :
        /\ IF o = "error"
           THEN /\ UNCHANGED written
                /\ IF attempt = WEB_RETRY_COUNT - 1
                   THEN /\ retry_urls' = retry_urls \cup {url}
                        /\ Call("drain", url, local_path, retry_urls \cup {url},
                                processed_urls, page_links)
                   ELSE /\ attempt' = attempt + 1
                        /\ UNCHANGED <<retry_urls, processed_urls, page_links, placed, idx,
                                       pc, url, caller, result, local_path>>
           ELSE /\ written' = [written EXCEPT ![url] = "raw"]
                /\ retry_urls' = retry_urls \ {url}
                /\ Call("drain", url, local_path, retry_urls \ {url},
                        processed_urls \cup {url}, page_links)
        /\ Track(o)
    /\ UNCHANGED <<uploadVars, site, feed, retry_mode, skipped_urls, fileExists, fileLines, loaded>>

\* Lines 289-307: one entry of the sitemap pass, or the end of the pass.
Sitemap ==
    /\ pc = "sitemap"
    /\ nreq' = 0
    /\ response' = "none"
    /\ IF idx > Len(sitemap_data)
       THEN /\ pc' = "output"
            /\ UNCHANGED <<processed_urls, page_links, placed, url, caller, attempt, idx,
                           result, local_path>>
       ELSE IF sitemap_data[idx].loc \in processed_urls
       THEN /\ idx' = idx + 1
            /\ UNCHANGED <<pc, processed_urls, page_links, placed, url, caller, attempt,
                           result, local_path>>
       ELSE LET lp == MirrorPath(sitemap_data[idx].loc)
            IN  Call("sitemap", sitemap_data[idx].loc,
                     IF HasExt(lp) THEN lp ELSE JoinIndex(lp),
                     retry_urls, processed_urls, page_links)
    /\ UNCHANGED <<uploadVars, site, feed, retry_mode, retry_urls, skipped_urls, fileExists, fileLines,
                   written, loaded, hist>>

\* A persistence step that would leave no ledger file at all.
PersistNothing(ru) == [exists |-> FALSE, lines |-> {}]

\* A persistence step that would write the file but never remove it.
PersistLedgerNoRemove(ru) == [exists |-> fileExists \/ ru # {}, lines |-> ru]

\* Lines 352-361: the ledger file is written when retry_urls is non-empty
\* and removed otherwise.
PersistLedger(ru) == [exists |-> ru # {}, lines |-> ru]

\* Lines 313-363: the output sitemap, the logs and the ledger file.
Output ==
    /\ pc = "output"
    /\ pc' = "done"
    /\ written' = [written EXCEPT ![sitemap_url] = "xml"]
    /\ processed_urls' = processed_urls \cup {sitemap_url}
    /\ fileExists' = PersistLedger(retry_urls).exists
    /\ fileLines' = PersistLedger(retry_urls).lines
    /\ UNCHANGED <<uploadVars, site, feed, retry_mode, retry_urls, skipped_urls, page_links, placed, url, caller,
                   attempt, idx, response, nreq, result, loaded, hist, local_path>>

Running == {"top", "drain", "asset", "html", "sitemap", "output"}

\* The process is killed from outside: its memory is gone, the disk stays.
Kill ==
    /\ pc \in Running
    /\ pc' = "killed"
    /\ retry_urls' = {}
    /\ processed_urls' = {}
    /\ skipped_urls' = {}
    /\ page_links' = {}
    /\ placed' = {}
    /\ url' = NoUrl
    /\ local_path' = NoUrl
    /\ caller' = "none"
    /\ attempt' = 0
    /\ idx' = 1
    /\ written' = NoWrites
    /\ response' = "none"
    /\ nreq' = 0
    /\ result' = NoResult
    /\ hist' = NoHist
    /\ UNCHANGED <<uploadVars, site, feed, retry_mode, fileExists, fileLines, loaded>>

\* The script is started again on the disk the previous run left.
Restart ==
    /\ pc \in {"done", "killed", "aborted"}
    /\ pc' = "start"
    /\ retry_mode' = FALSE
    /\ retry_urls' = {}
    /\ processed_urls' = {}
    /\ skipped_urls' = {}
    /\ page_links' = {}
    /\ placed' = {}
    /\ url' = NoUrl
    /\ local_path' = NoUrl
    /\ caller' = "none"
    /\ attempt' = 0
    /\ idx' = 1
    /\ written' = NoWrites
    /\ response' = "none"
    /\ nreq' = 0
    /\ result' = NoResult
    /\ loaded' = {}
    /\ hist' = NoHist
    /\ feed' = NoFeed
    /\ UNCHANGED <<uploadVars, site, fileExists, fileLines>>

\* ------------------------------------------------- actions of the upload
\* AwsS3Upload.py lines 29-57: create the client (exit(1) if that raises),
\* then load the ledger file, or create it empty.
UpStartup ==
    /\ up_pc = "start"
    /\ \E clientOk \in BOOLEAN :
        IF ~clientOk
        THEN /\ up_pc' = "exited"
             /\ UNCHANGED <<up_retry_mode, retry_files, up_fileExists, up_fileLines>>
        ELSE /\ up_pc' = "walk"
             /\ up_retry_mode' = up_fileExists
             /\ retry_files' = IF up_fileExists THEN up_fileLines ELSE {}
             /\ up_fileExists' = TRUE
             /\ up_fileLines' = IF up_fileExists THEN up_fileLines ELSE {}
    /\ pos' = 1
    /\ processed_files' = 0
    /\ UNCHANGED <<crawlVars, up_tree, uploaded, failed>>

\* Lines 60-109: one iteration of the walk. In the except block line 104
\* calls retry_file.add: retry_file is the closed file object of line 51,
\* or an unbound name when the ledger file did not exist, so the handler
\* itself raises and the script ends with a traceback.
UpFile ==
    /\ up_pc = "walk"
    /\ pos <= Len(Walk(up_tree))
    /\ LET file_path == Walk(up_tree)[pos]
           ct == content_type(ReadLines(up_tree, MetaPath(file_path)))
           skip == \/ EndsWithMetadata(file_path)
                   \/ up_retry_mode /\ file_path \notin retry_files
                   \/ ~Exists(up_tree, MetaPath(file_path))
                   \/ ct = <<>>
       IN  IF skip
           THEN /\ pos' = pos + 1
                /\ UNCHANGED <<up_pc, retry_files, uploaded, processed_files, failed>>
           ELSE \E outcome \in {"ok", "fail"} :
                IF outcome = "ok"
                THEN /\ uploaded' = uploaded \cup {<<file_path, ct>>}
                     /\ retry_files' = retry_files \ {file_path}
                     /\ processed_files' = processed_files + 1
                     /\ pos' = pos + 1
                     /\ UNCHANGED <<up_pc, failed>>
                ELSE /\ failed' = failed \cup {file_path}
                     /\ up_pc' = "crashed"
                     /\ UNCHANGED <<pos, retry_files, uploaded, processed_files>>
    /\ UNCHANGED <<crawlVars, up_tree, up_retry_mode, up_fileExists, up_fileLines>>

\* Lines 111-122: rewrite the ledger file, or remove it when nothing is left.
UpFinish ==
    /\ up_pc = "walk"
    /\ pos > Len(Walk(up_tree))
    /\ up_pc' = "done"
    /\ up_fileExists' = (retry_files # {})
    /\ up_fileLines' = retry_files
    /\ UNCHANGED <<crawlVars, up_tree, up_retry_mode, retry_files, pos, uploaded,
                   processed_files, failed>>

\* The operator runs the upload script again over the same tree.
UpRestart ==
    /\ up_pc \in {"done", "crashed", "exited"}
    /\ up_pc' = "start"
    /\ up_retry_mode' = FALSE
    /\ retry_files' = {}
    /\ pos' = 1
    /\ uploaded' = {}
    /\ processed_files' = 0
    /\ failed' = {}
    /\ UNCHANGED <<crawlVars, up_tree, up_fileExists, up_fileLines>>

NextUpload ==
    \/ UpStartup
    \/ UpFile
    \/ UpFinish
    \/ UpRestart

SpecUpload == InitUpload /\ [][NextUpload]_vars

Next ==
    \/ Startup
    \/ TopPage
    \/ HtmlRequest
    \/ Drain
    \/ AssetRequest
    \/ Sitemap
    \/ Output
    \/ Kill
    \/ Restart

Spec == Init /\ [][Next]_vars

SpecOrigin == InitOrigin /\ [][Next]_vars

\* The script is single-threaded and blocking: while the process is alive
\* its next statement is eventually executed. Kill and Restart come from
\* outside and are under no obligation.
Step ==
    \/ Startup
    \/ TopPage
    \/ HtmlRequest
    \/ Drain
    \/ AssetRequest
    \/ Sitemap
    \/ Output

FairSpec == Spec /\ WF_vars(Step)

\* ------------------------------------------------------------------- claims
Requesting == pc \in {"html", "asset"}

\* A step in which a request of the current handling was answered.
Answered == Requesting /\ nreq' = nreq + 1

\* C1: at completion of a run no URL is in both processed_urls and
\* skipped_urls, and the worklist is empty.
C1_DisjointAtCompletion ==
    pc = "done" => (processed_urls \cap skipped_urls = {} /\ page_links = {})

\* C2: a request answered with a redirect writes no file or sidecar, puts
\* the URL in skipped_urls and does not put it in processed_urls, for pages
\* and for assets alike.
C2_RedirectNeverSaved ==
    [][(Answered /\ response' = "redirect")
         => (written' = written /\ url \in skipped_urls' /\ url \notin processed_urls')]_vars

\* C3: a retry-mode run that loaded the ledger {A, B}, in which the requests
\* for A failed once and then succeeded and the requests for B always
\* failed, ends with the ledger file holding exactly {B}.
C3_RetryConvergence ==
    \A A \in LedgerUrls, B \in LedgerUrls :
        (/\ pc = "done"
         /\ retry_mode
         /\ A # B
         /\ loaded = {A, B}
         /\ hist[A] \in {"none", "F", "FS"}
         /\ hist[B] \in {"none", "F", "FF"})
        => (fileExists /\ fileLines = {B})

\* C4: in retry mode every request is for a URL that is in the ledger at
\* the moment of the request.
C4_RetryModeRequestsOnlyLedger ==
    (retry_mode /\ Requesting) => url \in retry_urls

\* C5: every URL in processed_urls was fetched and saved during this run; a
\* call gated by retry mode adds nothing to processed_urls.
C5_ProcessedWereSaved ==
    \A u \in processed_urls : written[u] # "none"

\* C6: when a run reaches its end the ledger file exists exactly when
\* retry_urls is non-empty, and then lists exactly retry_urls.
C6_LedgerLifecycle ==
    pc = "done" =>
        /\ fileExists <=> (retry_urls # {})
        /\ fileExists => fileLines = retry_urls

\* C6 witness: a run that found a ledger file at startup ended with an empty
\* ledger and left no file.
C6_Witness ==
    pc = "done" /\ retry_mode /\ loaded # {} /\ retry_urls = {} /\ ~fileExists

\* C7: wherever the process stops, the ledger file is not present-but-empty,
\* and a run started without a ledger file and killed leaves none.
C7_NeverPresentButEmpty ==
    /\ pc \in {"done", "killed", "aborted"} => ~(fileExists /\ fileLines = {})
    /\ (pc = "killed" /\ ~retry_mode) => ~fileExists

\* C8: for an asset drawn from the worklist the HTML path is never run and
\* its destination never holds a rewritten HTML serialization.
C8_AssetRawOnly ==
    /\ (pc = "html" /\ caller = "drain") => ~HasExt(url)
    /\ \A d \in Dest : (HasExt(d) /\ d # sitemap_url) => written[d] \in {"none", "raw"}

\* C9: one handling issues at most 3 requests, a further one only after the
\* previous one failed, and the URL enters the ledger exactly when the 3rd
\* attempt fails, the handling then yielding no result and the URL not being
\* recorded as processed.
C9_AtMostThreeAttempts ==
    [][Requesting =>
         /\ nreq' <= WEB_RETRY_COUNT
         /\ (Answered /\ nreq > 0) => response = "error"
         /\ (Answered /\ nreq' = WEB_RETRY_COUNT /\ response' = "error")
              => (url \in retry_urls' /\ pc' # "html" /\ result'.none
                    /\ url \notin processed_urls')
         /\ (Answered /\ url \notin retry_urls /\ url \in retry_urls')
              => (nreq' = WEB_RETRY_COUNT /\ response' = "error")]_vars

\* C10: during the sitemap pass the worklist stays empty and a sitemap fetch
\* returns no discovered links.
C10_SitemapPassIndependence ==
    /\ (pc = "sitemap" \/ (pc = "html" /\ caller = "sitemap")) => page_links = {}
    /\ result.site = "sitemap" => result.links = {}

\* C10 witness: a sitemap entry was fetched with a clean response and saved.
C10_Witness ==
    /\ pc = "sitemap"
    /\ result.site = "sitemap"
    /\ ~result.none
    /\ response = "ok"
    /\ PageS \in processed_urls
    /\ written[PageS] = "html"

InCrawl == pc \in {"drain", "html", "asset"}

\* A measure of the work the crawl has left: the destinations no HTML fetch
\* has written yet, then the worklist and the handling in progress, then the
\* attempts the handling in progress has left.
Rank ==
    Cardinality({d \in Dest : written[d] # "html"}) * 100
    + (2 * Cardinality(page_links) + (IF pc \in {"html", "asset"} THEN 1 ELSE 0)) * 8
    + (IF pc = "asset" THEN 2 * WEB_RETRY_COUNT - attempt
       ELSE IF pc = "html" THEN WEB_RETRY_COUNT - attempt
       ELSE 0)

\* C11: the drain terminates for every link graph and every assignment of
\* request outcomes: in every state of the crawl the script has a next step,
\* and every step that stays in the crawl decreases a natural-number measure,
\* so the worklist becomes empty after finitely many steps.
C11_DrainTerminates ==
    /\ [](InCrawl => ENABLED Step)
    /\ [][(InCrawl /\ InCrawl') => Rank' < Rank]_vars

\* The same as a temporal property of FairSpec: from any point of the crawl
\* the run reaches its end, unless the process is killed.
DrainEventuallyEnds ==
    InCrawl ~> (pc \in {"done", "killed"})

\* C11 witness: the drain has ended on a graph with a cycle (the top page
\* and /p both fetched, each reachable from the other only through links),
\* with one URL that always failed and one that redirected.
C11_Witness ==
    /\ pc = "sitemap"
    /\ idx = 1
    /\ ~retry_mode
    /\ {top_page_url, PageP} \subseteq processed_urls
    /\ Asset \in retry_urls
    /\ Tag \in skipped_urls

\* C12: a worklist URL with a query string outside the /tagcloud?tag=
\* family is fetched and compared with processed_urls in its form cut at
\* '?', and the uncut URL goes to skipped_urls; a /tagcloud?tag=X URL is
\* fetched uncut, is not added to skipped_urls by the drain, and is saved
\* at tagcloud\X with the index document appended.
C12_QueryNormalization ==
    [][(pc = "drain" /\ page_links # {} /\ pc' # "killed") =>
         \A popped \in page_links \ page_links' :
            /\ popped = PageQ =>
                 /\ PageQ \in skipped_urls'
                 /\ pc' \in {"html", "asset"} => url' = PageP
                 /\ PageP \in processed_urls
                      => (pc' = "drain" /\ processed_urls' = processed_urls)
            /\ popped = Tag =>
                 /\ skipped_urls' = skipped_urls
                 /\ pc' # "asset"
                 /\ pc' = "html" =>
                      /\ url' = Tag
                      /\ local_path' = <<"root", "/tagcloud", "\\", "news", "\\", "index">>]_vars

\* C12 witness: the drain has cut /p?x=1 to /p and fetched /p, and has
\* fetched and saved the tagcloud URL without skipping it.
C12_Witness ==
    /\ pc = "drain"
    /\ PageQ \in skipped_urls
    /\ PageP \in processed_urls
    /\ written[PageP] = "html"
    /\ Tag \in processed_urls
    /\ written[Tag] = "html"
    /\ Tag \notin skipped_urls

\* The tokens that spell a host name, and the origin of a URL: its host.
HostTokens == {"ex", "other", ".evil"}
Origin(u) == SubSeq(u, 1, Cardinality({i \in 1..Len(u) : \A j \in 1..i : u[j] \in HostTokens}))
SameOrigin(u) == Origin(u) = Origin(top_page_url)

\* C13: a link whose URL is not same-origin with the top page is never in
\* the worklist, never requested, and never in processed_urls, skipped_urls
\* or the retry ledger (in memory or on disk).
C13_OffDomainExcluded ==
    /\ \A u \in page_links \cup processed_urls \cup skipped_urls
                \cup retry_urls \cup fileLines : SameOrigin(u)
    /\ Requesting => SameOrigin(url)

\* C14: a URL detected as redirected is a structural skip with no retry: a
\* URL the ledger listed at startup and whose every request of this run was
\* answered with a redirect is in skipped_urls and not in the ledger file
\* when the run ends.
C14_RedirectNotRetried ==
    pc = "done" =>
        \A u \in loaded : hist[u] = "R" => (u \in skipped_urls /\ u \notin fileLines)

\* C15: a failure on a single item never terminates the process. For the
\* upload: the script never dies on a file, and a file whose upload failed
\* is in the upload ledger (in memory while walking, on disk once done).
C15_ItemFailureContained ==
    /\ up_pc # "crashed"
    /\ up_pc = "walk" => failed \subseteq retry_files
    /\ up_pc = "done" => (failed \subseteq up_fileLines /\ (failed # {} => up_fileExists))

\* The Content-Type each sidecar text declares, read off the text by hand.
Declared(sc) ==
    IF sc = SidecarHtml THEN <<"text/html">>
    ELSE IF sc = SidecarPng THEN <<"image/png">>
    ELSE <<>>

\* C18: a file is uploaded only if its sidecar exists and declares a
\* non-empty Content-Type, and with that Content-Type; no .metadata file is
\* uploaded; skipped files do not stop the walk: a first run that reaches
\* its end has uploaded every file whose sidecar declares a Content-Type.
C18_UploadOnlyDeclared ==
    /\ \A e \in uploaded :
        /\ ~EndsWithMetadata(e[1])
        /\ \E i \in 1..MaxFiles :
            /\ e[1] = ObjPath(i)
            /\ up_tree[i].exists
            /\ Declared(up_tree[i]) # <<>>
            /\ e[2] = Declared(up_tree[i])
    /\ (up_pc = "done" /\ ~up_retry_mode) =>
        \A i \in 1..MaxFiles :
            Declared(up_tree[i]) # <<>> => <<ObjPath(i), Declared(up_tree[i])>> \in uploaded

C18_Witness ==
    /\ up_pc = "done"
    /\ ~up_retry_mode
    /\ up_tree[1] = NoSidecar
    /\ up_tree[2] = SidecarPng
    /\ <<ObjPath(2), <<"image/png">>>> \in uploaded
    /\ \A e \in uploaded : e[1] # ObjPath(1)

\* C16: when the sitemap feed is unreachable, answers a non-2xx status or
\* is unparseable, the run aborts at once: no request for a page or asset
\* is issued, and processed_urls, skipped_urls, the mirrored files and the
\* ledger file stay as they were at startup (no ledger file is created).
C16_EmptySitemapAborts ==
    [][(pc = "start" /\ feed'.kind \in {"unreachable", "status", "unparseable"}) =>
          /\ pc' = "aborted"
          /\ nreq' = 0
          /\ fileExists' = fileExists
          /\ fileLines' = fileLines
          /\ processed_urls' = processed_urls
          /\ skipped_urls' = skipped_urls
          /\ written' = written]_vars

C16_Witness ==
    /\ pc = "aborted"
    /\ feed = FeedBroken
    /\ ~fileExists
    /\ written = NoWrites
    /\ nreq = 0

\* C17: a urlset in which a url element has a loc but no lastmod is loaded:
\* the run does not abort, and every entry of the feed is returned.
C17_MissingLastmodLoads ==
    feed = FeedNoLastmod =>
        /\ pc # "aborted"
        /\ Len(sitemap_data) = 2
        /\ sitemap_data[1].loc = PageP
        /\ sitemap_data[2].loc = PageS

\* C19: a retry-mode run that completes has issued at least one request for
\* every URL the ledger file listed at startup.
C19_LedgerUrlsAttempted ==
    (pc = "done" /\ retry_mode) => \A u \in loaded : hist[u] # "none"

\* The sets a URL can be accounted for in when a run has completed.
Accounted == processed_urls \cup skipped_urls \cup fileLines

\* The top page and every sitemap entry are accounted for.
SeedsAccounted == {top_page_url, PageP, PageS} \subseteq Accounted

\* The URL with everything from its first '?' on removed.
QueryTruncated(u) ==
    IF u = PageQ THEN PageP
    ELSE IF u = Tag THEN <<"ex", "/tagcloud">>
    ELSE u

\* The form in which the drain loop handles a URL: a tagcloud URL keeps its
\* query.
HandledForm(u) == IF u = Tag THEN Tag ELSE QueryTruncated(u)

\* C20 as stated: when a full-crawl run has completed, the top page, every
\* sitemap entry and the query-truncated form of every URL that was ever on
\* the worklist is in processed_urls, skipped_urls or the ledger file.
C20_Completeness ==
    (pc = "done" /\ ~retry_mode) =>
        (SeedsAccounted /\ \A u \in placed : QueryTruncated(u) \in Accounted)

\* C20 amended: the same, with a tagcloud URL accounted for as it is (its
\* query is kept), every other URL in its query-truncated form.
C20_CompletenessHandledForm ==
    (pc = "done" /\ ~retry_mode) =>
        (SeedsAccounted /\ \A u \in placed : HandledForm(u) \in Accounted)

C20_Witness ==
    /\ pc = "done"
    /\ ~retry_mode
    /\ placed = {PageQ, Tag, Asset}
    /\ PageP \in fileLines
    /\ {Tag, PageS} \subseteq processed_urls
====
